---- MODULE Spec2Model ----
(***************************************************************************)
(* Model of the two coordinators of examples/agentic-ai:                   *)
(*   - MultiAgentSystem (multi_agent_system.py): typed agents, routing by  *)
(*     task type, a thread pool running Agent.process_task, and the        *)
(*     collection loop that fills `results` and `system_metrics`;          *)
(*   - DistributedTrainingCoordinator (distributed_training.py): epochs of *)
(*     parallel TrainingWorker.train_epoch calls, each followed by         *)
(*     synchronize_workers, with early stopping.                           *)
(* Threads are modelled by one position per future; the main thread by     *)
(* `pc` (multi-agent system) and `d_pc` (training coordinator).            *)
(***************************************************************************)
EXTENDS Integers, Sequences, FiniteSets, TLC

\* ---------------------------------------------------------------- bounds
MaxTasks == 2             \* tasks submitted to one MultiAgentSystem

\* ------------------------------------------------------------ small helpers
Range(s) == {s[k] : k \in 1..Len(s)}

NoAgent == "none"
NoRecord == [task_id |-> 0, duration |-> 0, status |-> "none"]
NoFile == [written |-> FALSE]

\* ---- state of distributed_training.py (its operations follow further down)
VARIABLES
  d_num_workers,   \* config['num_workers']
  d_epochs,        \* config['epochs']
  sum_mode,        \* float summation of the interpreter's sum(): "naive"
                   \* (CPython up to 3.11) or "compensated" (3.12 and later)
  rng,             \* the pairs <<loss noise, accuracy noise>> random.uniform
                   \* may return in this run, in hundredths
  d_pc,            \* position of the thread calling run_training
  epoch,           \* loop variable of run_training
  w_status,        \* TrainingWorker.status per worker
  w_metrics,       \* TrainingWorker.metrics per worker
  d_fut,           \* the `futures` of the current epoch, with thread position
  d_waiter,        \* futures finished since as_completed started, oldest
                   \* first (the waiter's finished_futures)
  d_snap,          \* futures already finished when as_completed started
  d_collected,     \* futures the collect loop has handled
  epoch_results,   \* the `epoch_results` list of the current epoch
  global_metrics,  \* self.global_metrics
  d_error_log      \* logger.error lines (155, 189)

trainVars == <<d_num_workers, d_epochs, sum_mode, rng, d_pc, epoch, w_status,
               w_metrics, d_fut, d_waiter, d_snap, d_collected,
               epoch_results, global_metrics, d_error_log>>


\* ============================================================================
\*  multi_agent_system.py
\* ============================================================================
VARIABLES
  config,          \* config['agents']: sequence of [id, type]
  task_timeout,    \* config['coordination']['task_timeout'], in half seconds
  agent_order,     \* keys of self.agents, in dict (insertion) order
  agent_type,      \* Agent.agent_type per key
  status,          \* Agent.status per key
  task_history,    \* Agent.task_history per key
  system_metrics,  \* self.system_metrics
  pc,              \* position of the thread calling process_tasks_parallel
  ntasks,          \* len(tasks) of the current call
  tasks,           \* the tasks of the current call the submit loop has reached
  fut,             \* per task: future_to_task entry and thread position
  done_order,      \* tasks in the order their futures finished
  snap_finished,   \* futures already finished when as_completed started
  collected,       \* futures the collect loop has handled
  results,         \* the `results` list of the current call
  error_log,       \* logger.error lines of the current call (245, 266)
  next_uuid,       \* source of fresh uuid4 values
  workflow_file,   \* 'system_metrics' of the last workflow_results_*.json
  metrics_file,    \* contents of the last agent_metrics_*.json
  results_returned \* len(results) summed over the calls that have returned

fileVars == <<workflow_file, metrics_file>>

masVars == <<config, task_timeout, agent_order, agent_type, status,
             task_history, system_metrics, pc, ntasks, tasks, fut, done_order,
             snap_finished, collected, results, error_log, next_uuid,
             workflow_file, metrics_file, results_returned>>

vars == <<masVars, trainVars>>

AgentTypes == {"researcher", "analyst", "writer"}
TaskTypes == {"research", "analysis", "writing", "generic", "absent", "other"}

\* A task dict: its 'type' key ("absent": no such key), whether its
\* 'topic'/'content_type' values are strings (str.title() works on them; only
\* _writing_task reads them), and its 'task_id' key as the caller passes it:
\* 0 for no such key, -1 for an identifier of the caller's choice (the values
\* of uuid4 are the positive numbers).  One input carries an identifier; its
\* type is one that no agent handles, which keeps the set of runs small.
TaskInputs ==
  {t \in [type : TaskTypes, topic_ok : BOOLEAN, task_id : {0, -1}] :
      /\ ~t.topic_ok => t.type = "writing"
      /\ t.task_id # 0 => t.type = "other"}

\* config['agents'] of the demo
DemoAgents ==
  << [id |-> "researcher-001", type |-> "researcher"],
     [id |-> "researcher-002", type |-> "researcher"],
     [id |-> "analyst-001", type |-> "analyst"],
     [id |-> "analyst-002", type |-> "analyst"],
     [id |-> "writer-001", type |-> "writer"] >>

\* the configurations explored: the demo's agent list cut after any entry
Configs == {SubSeq(DemoAgents, 1, n) : n \in 0..Len(DemoAgents)}

\* a configuration that registers the id researcher-001 twice
DuplicateIdAgents ==
  << [id |-> "researcher-001", type |-> "researcher"],
     [id |-> "researcher-001", type |-> "writer"] >>

\* the whole config dicts explored, task_timeout in half seconds: the agent
\* lists above with the demo's 300 s, the duplicate-id list, and the one-agent
\* list with a timeout of 1 s, which every work unit outlasts
SystemConfigs ==
  {[agents |-> c, task_timeout |-> 600] : c \in Configs \cup {DuplicateIdAgents}}
    \cup {[agents |-> SubSeq(DemoAgents, 1, 1), task_timeout |-> 2]}

\* _initialize_agents: self.agents[agent.agent_id] = agent for each entry, in
\* order; a repeated id replaces the value and keeps the key's position.
RECURSIVE InitializeAgents(_, _)
InitializeAgents(cfg, k) ==
  IF k = 0 THEN [order |-> <<>>, type |-> <<>>]
  ELSE LET prev == InitializeAgents(cfg, k - 1)
           e == cfg[k]
       IN [order |-> IF e.id \in Range(prev.order) THEN prev.order
                     ELSE Append(prev.order, e.id),
           type |-> (e.id :> e.type) @@ prev.type]

InitialUtilization == [tasks_completed |-> 0, total_time |-> 0,
                       average_time |-> [num |-> 0, den |-> 1]]

\* task.get('type', 'generic')
TaskType(t) == IF t.type = "absent" THEN "generic" ELSE t.type

\* variant: the writing branch forgets to test the agent's type
MatchesUntypedWriting(task_type, a_type) ==
  \/ task_type = "research" /\ a_type = "researcher"
  \/ task_type = "analysis" /\ a_type = "analyst"
  \/ task_type = "writing"
  \/ task_type = "generic"

\* the if/elif chain of _find_suitable_agents
Matches(task_type, a_type) ==
  \/ task_type = "research" /\ a_type = "researcher"
  \/ task_type = "analysis" /\ a_type = "analyst"
  \/ task_type = "writing" /\ a_type = "writer"
  \/ task_type = "generic"

FindSuitableAgents(t) ==
  SelectSeq(agent_order,
            LAMBDA a : /\ status[a] \in {"idle", "working"}
                       /\ Matches(TaskType(t), agent_type[a]))

\* variant: the scan replaces the candidate on a smaller or equal key, so the
\* last of several least-loaded agents wins
RECURSIVE MinByHistoryLastWins(_, _, _)
MinByHistoryLastWins(s, k, best) ==
  IF k > Len(s) THEN best
  ELSE MinByHistoryLastWins(s, k + 1,
         IF Len(task_history[s[k]]) <= Len(task_history[best]) THEN s[k] ELSE best)

\* min(suitable_agents, key=lambda a: len(a.task_history)): a left-to-right
\* scan that replaces the candidate only on a strictly smaller key.
RECURSIVE MinByHistory(_, _, _)
MinByHistory(s, k, best) ==
  IF k > Len(s) THEN best
  ELSE MinByHistory(s, k + 1,
         IF Len(task_history[s[k]]) < Len(task_history[best]) THEN s[k] ELSE best)

SelectAgent(suitable) == MinByHistory(suitable, 2, suitable[1])

\* _execute_task: dispatch on agent_type; only _writing_task can raise
\* (topic.title() / content_type.title() on a non-string).
ExecuteTask(a_type, t) ==
  IF a_type = "writer" /\ ~t.topic_ok THEN "raise" ELSE "ok"

\* time.sleep of the work unit, in half seconds
Duration(a_type) ==
  CASE a_type = "researcher" -> 4
    [] a_type = "analyst" -> 3
    [] a_type = "writer" -> 5
    [] OTHER -> 2

\* ThreadPoolExecutor(max_workers=len(self.agents))
MaxWorkers == Len(agent_order)

Indices == 1..Len(fut)
Occupied == {i \in Indices : fut[i].pc \in {"running", "appended", "idled", "errored"}}
Finished == {i \in Indices : fut[i].pc \in {"done", "raised"}}
Dispatched == {i \in Indices : fut[i].pc # "unroutable"}
QueuedBefore(i) == {j \in 1..(i - 1) : fut[j].pc = "queued"}

\* the system after MultiAgentSystem(config) for the agent list cfg
Registered(cfg, timeout) ==
  /\ config = cfg
  /\ task_timeout = timeout
  /\ LET reg == InitializeAgents(cfg, Len(cfg))
     IN /\ agent_order = reg.order
        /\ agent_type = reg.type
        /\ status = [a \in Range(reg.order) |-> "idle"]
        /\ task_history = [a \in Range(reg.order) |-> <<>>]
        /\ system_metrics =
             [tasks_processed |-> 0, total_processing_time |-> 0,
              agent_utilization |-> [a \in Range(reg.order) |-> InitialUtilization]]
  /\ pc = "idle"
  /\ ntasks = 0
  /\ tasks = <<>>
  /\ fut = <<>>
  /\ done_order = <<>>
  /\ snap_finished = {}
  /\ collected = {}
  /\ results = <<>>
  /\ error_log = <<>>
  /\ next_uuid = 1
  /\ workflow_file = NoFile
  /\ metrics_file = NoFile
  /\ results_returned = 0

InitAgents == \E c \in SystemConfigs : Registered(c.agents, c.task_timeout)

\* process_tasks_parallel, entry: the pool is created for len(self.agents)
\* threads; ThreadPoolExecutor raises ValueError for max_workers = 0.
ProcessTasksParallel(n) ==
  /\ pc \in {"idle", "returned", "crashed"}
  /\ n <= MaxTasks - (next_uuid - 1)
  /\ ntasks' = n
  /\ tasks' = <<>>
  /\ fut' = <<>>
  /\ done_order' = <<>>
  /\ snap_finished' = {}
  /\ collected' = {}
  /\ results' = <<>>
  /\ error_log' = <<>>
  /\ pc' = IF MaxWorkers = 0 THEN "crashed" ELSE "submitting"
  /\ UNCHANGED <<config, task_timeout, agent_order, agent_type, status, task_history,
                 system_metrics, next_uuid>>
  /\ UNCHANGED trainVars
  /\ UNCHANGED <<fileVars, results_returned>>

\* variant: no handler around assign_task, the ValueError leaves the call
SubmitTaskUnhandled(t) ==
  /\ pc = "submitting"
  /\ Len(tasks) < ntasks
  /\ LET suitable == FindSuitableAgents(t)
     IN IF suitable = <<>>
        THEN /\ fut' = Append(fut, [pc |-> "unroutable", agent |-> NoAgent,
                                    task_id |-> next_uuid, record |-> NoRecord])
             /\ pc' = "crashed"
        ELSE /\ fut' = Append(fut, [pc |-> "queued", agent |-> SelectAgent(suitable),
                                    task_id |-> next_uuid, record |-> NoRecord])
             /\ pc' = pc
  /\ tasks' = Append(tasks, t)
  /\ next_uuid' = next_uuid + 1
  /\ UNCHANGED <<config, task_timeout, agent_order, agent_type, status, task_history,
                 system_metrics, ntasks, done_order,
                 snap_finished, collected, results, error_log>>
  /\ UNCHANGED trainVars
  /\ UNCHANGED <<fileVars, results_returned>>

\* one iteration of the submit loop: assign_task, then executor.submit or
\* the ValueError handler
SubmitTask(t) ==
  /\ pc = "submitting"
  /\ Len(tasks) < ntasks
  /\ LET suitable == FindSuitableAgents(t)
         i == Len(tasks) + 1
     IN IF suitable = <<>>
        THEN /\ fut' = Append(fut, [pc |-> "unroutable", agent |-> NoAgent,
                                    task_id |-> next_uuid, record |-> NoRecord])
             /\ error_log' = Append(error_log, [kind |-> "routing", task |-> i])
        ELSE /\ fut' = Append(fut, [pc |-> "queued", agent |-> SelectAgent(suitable),
                                    task_id |-> next_uuid, record |-> NoRecord])
             /\ error_log' = error_log
  /\ tasks' = Append(tasks, t)
  /\ next_uuid' = next_uuid + 1
  /\ UNCHANGED <<config, task_timeout, agent_order, agent_type, status, task_history,
                 system_metrics, pc, ntasks, done_order,
                 snap_finished, collected, results>>
  /\ UNCHANGED trainVars
  /\ UNCHANGED <<fileVars, results_returned>>

\* variant: a work item is started whether or not a pool thread is free
StartTaskUnbounded(i) ==
  /\ i \in Indices
  /\ fut[i].pc = "queued"
  /\ fut' = [fut EXCEPT ![i].pc = "running"]
  /\ status' = [status EXCEPT ![fut[i].agent] = "working"]
  /\ UNCHANGED <<config, task_timeout, agent_order, agent_type, task_history,
                 system_metrics, pc, ntasks, tasks, done_order, snap_finished,
                 collected, results, error_log, next_uuid>>
  /\ UNCHANGED trainVars
  /\ UNCHANGED <<fileVars, results_returned>>

\* a pool thread takes the oldest queued work item and enters process_task:
\* self.status = "working"
StartTask(i) ==
  /\ i \in Indices
  /\ fut[i].pc = "queued"
  /\ Cardinality(QueuedBefore(i)) < MaxWorkers - Cardinality(Occupied)
  /\ fut' = [fut EXCEPT ![i].pc = "running"]
  /\ status' = [status EXCEPT ![fut[i].agent] = "working"]
  /\ UNCHANGED <<config, task_timeout, agent_order, agent_type, task_history, system_metrics,
                 pc, ntasks, tasks, done_order, snap_finished,
                 collected, results, error_log, next_uuid>>
  /\ UNCHANGED trainVars
  /\ UNCHANGED <<fileVars, results_returned>>

\* _execute_task returned: task_record built and appended to task_history
AppendRecord(i) ==
  /\ i \in Indices
  /\ fut[i].pc = "running"
  /\ ExecuteTask(agent_type[fut[i].agent], tasks[i]) = "ok"
  /\ LET a == fut[i].agent
         rec == [task_id |-> fut[i].task_id,
                 duration |-> Duration(agent_type[a]),
                 status |-> "completed"]
     IN /\ task_history' = [task_history EXCEPT ![a] = Append(@, rec)]
        /\ fut' = [fut EXCEPT ![i].pc = "appended", ![i].record = rec]
  /\ UNCHANGED <<config, task_timeout, agent_order, agent_type, status, system_metrics,
                 pc, ntasks, tasks, done_order, snap_finished,
                 collected, results, error_log, next_uuid>>
  /\ UNCHANGED trainVars
  /\ UNCHANGED <<fileVars, results_returned>>

\* self.status = "idle"
SetIdle(i) ==
  /\ i \in Indices
  /\ fut[i].pc = "appended"
  /\ fut' = [fut EXCEPT ![i].pc = "idled"]
  /\ status' = [status EXCEPT ![fut[i].agent] = "idle"]
  /\ UNCHANGED <<config, task_timeout, agent_order, agent_type, task_history, system_metrics,
                 pc, ntasks, tasks, done_order, snap_finished,
                 collected, results, error_log, next_uuid>>
  /\ UNCHANGED trainVars
  /\ UNCHANGED <<fileVars, results_returned>>

\* return task_record: the future finishes with a result
ReturnRecord(i) ==
  /\ i \in Indices
  /\ fut[i].pc = "idled"
  /\ fut' = [fut EXCEPT ![i].pc = "done"]
  /\ done_order' = Append(done_order, i)
  /\ UNCHANGED <<config, task_timeout, agent_order, agent_type, status, task_history,
                 system_metrics, pc, ntasks, tasks, snap_finished,
                 collected, results, error_log, next_uuid>>
  /\ UNCHANGED trainVars
  /\ UNCHANGED <<fileVars, results_returned>>

\* _execute_task raised: the except branch sets self.status = "error"
SetError(i) ==
  /\ i \in Indices
  /\ fut[i].pc = "running"
  /\ ExecuteTask(agent_type[fut[i].agent], tasks[i]) = "raise"
  /\ fut' = [fut EXCEPT ![i].pc = "errored"]
  /\ status' = [status EXCEPT ![fut[i].agent] = "error"]
  /\ UNCHANGED <<config, task_timeout, agent_order, agent_type, task_history, system_metrics,
                 pc, ntasks, tasks, done_order, snap_finished,
                 collected, results, error_log, next_uuid>>
  /\ UNCHANGED trainVars
  /\ UNCHANGED <<fileVars, results_returned>>

\* raise: the future finishes with the exception
Reraise(i) ==
  /\ i \in Indices
  /\ fut[i].pc = "errored"
  /\ fut' = [fut EXCEPT ![i].pc = "raised"]
  /\ done_order' = Append(done_order, i)
  /\ UNCHANGED <<config, task_timeout, agent_order, agent_type, status, task_history,
                 system_metrics, pc, ntasks, tasks, snap_finished,
                 collected, results, error_log, next_uuid>>
  /\ UNCHANGED trainVars
  /\ UNCHANGED <<fileVars, results_returned>>

\* the submit loop is over; as_completed(future_to_task) starts and notes
\* the futures that are already finished
AsCompleted ==
  /\ pc = "submitting"
  /\ Len(tasks) = ntasks
  /\ pc' = "collecting"
  /\ snap_finished' = Finished
  /\ UNCHANGED <<config, task_timeout, agent_order, agent_type, status, task_history,
                 system_metrics, ntasks, tasks, fut, done_order,
                 collected, results, error_log, next_uuid>>
  /\ UNCHANGED trainVars
  /\ UNCHANGED <<fileVars, results_returned>>

\* as_completed yields the futures finished at its start in any order, then
\* the others in the order they finish
NextYield(i) ==
  /\ i \in Finished \ collected
  /\ \/ i \in snap_finished
     \/ /\ snap_finished \subseteq collected
        /\ \A k \in 1..Len(done_order) :
              (done_order[k] \notin collected /\ done_order[k] \notin snap_finished)
                 => \E m \in 1..k : done_order[m] = i

\* variant: the processing time of the last record replaces the total
UpdateTotalsAssigned(m, rec) ==
  [m EXCEPT !.tasks_processed = @ + 1,
            !.total_processing_time = rec.duration]

\* lines 257-258: the run totals
UpdateTotals(m, rec) ==
  [m EXCEPT !.tasks_processed = @ + 1,
            !.total_processing_time = @ + rec.duration]

\* variant: the average is taken before the count is incremented
UpdateUtilizationDividesFirst(m, a, rec) ==
  LET u == m.agent_utilization[a]
      total == u.total_time + rec.duration
  IN [m EXCEPT !.agent_utilization[a] =
        [tasks_completed |-> u.tasks_completed + 1, total_time |-> total,
         average_time |-> [num |-> total, den |-> u.tasks_completed]]]

\* lines 260-263: the record of the agent that ran the task
UpdateUtilization(m, a, rec) ==
  LET u == m.agent_utilization[a]
      completed == u.tasks_completed + 1
      total == u.total_time + rec.duration
  IN [m EXCEPT !.agent_utilization[a] =
        [tasks_completed |-> completed, total_time |-> total,
         average_time |-> [num |-> total, den |-> completed]]]

\* variant: the run total is advanced in the handler of a failed future too
CollectCountingFailures(i) ==
  /\ pc = "collecting"
  /\ NextYield(i)
  /\ collected' = collected \cup {i}
  /\ IF fut[i].pc = "done"
     THEN /\ results' = Append(results, fut[i].record)
          /\ system_metrics' = UpdateTotals(system_metrics, fut[i].record)
          /\ error_log' = error_log
          /\ pc' = "updating"
     ELSE /\ error_log' = Append(error_log, [kind |-> "execution", task |-> i])
          /\ system_metrics' =
               [system_metrics EXCEPT !.tasks_processed = @ + 1]
          /\ UNCHANGED <<results, pc>>
  /\ UNCHANGED <<config, task_timeout, agent_order, agent_type, status,
                 task_history, ntasks, tasks, fut, done_order, snap_finished,
                 next_uuid>>
  /\ UNCHANGED trainVars
  /\ UNCHANGED <<fileVars, results_returned>>

\* one iteration of the collect loop, up to the update of the run totals; a
\* future that raised is only logged
Collect(i) ==
  /\ pc = "collecting"
  /\ NextYield(i)
  /\ collected' = collected \cup {i}
  /\ IF fut[i].pc = "done"
     THEN /\ results' = Append(results, fut[i].record)
          /\ system_metrics' = UpdateTotals(system_metrics, fut[i].record)
          /\ error_log' = error_log
          /\ pc' = "updating"
     ELSE /\ error_log' = Append(error_log, [kind |-> "execution", task |-> i])
          /\ UNCHANGED <<results, system_metrics, pc>>
  /\ UNCHANGED <<config, task_timeout, agent_order, agent_type, status,
                 task_history, ntasks, tasks, fut, done_order, snap_finished,
                 next_uuid>>
  /\ UNCHANGED trainVars
  /\ UNCHANGED <<fileVars, results_returned>>

\* the future whose record the collect loop appended last
Current == CHOOSE i \in Indices : fut[i].task_id = results[Len(results)].task_id

\* the rest of the iteration: agent_metrics of the task's agent
UpdateAgentMetrics ==
  /\ pc = "updating"
  /\ system_metrics' = UpdateUtilization(system_metrics, fut[Current].agent,
                                         fut[Current].record)
  /\ pc' = "collecting"
  /\ UNCHANGED <<config, task_timeout, agent_order, agent_type, status,
                 task_history, ntasks, tasks, fut, done_order, snap_finished,
                 collected, results, error_log, next_uuid>>
  /\ UNCHANGED trainVars
  /\ UNCHANGED <<fileVars, results_returned>>

\* every future has been yielded; the pool is shut down and results returned
ReturnResults ==
  /\ pc = "collecting"
  /\ Dispatched \subseteq collected
  /\ pc' = "returned"
  /\ results_returned' = results_returned + Len(results)
  /\ UNCHANGED <<config, task_timeout, agent_order, agent_type, status, task_history,
                 system_metrics, ntasks, tasks, fut, done_order,
                 snap_finished, collected, results, error_log, next_uuid>>
  /\ UNCHANGED trainVars
  /\ UNCHANGED fileVars

\* ---- run_demo_workflow after process_tasks_parallel has returned ----------
\* variant: the metrics are read and the accumulated time is cleared, as a
\* read-and-reset counter would be
SaveWorkflowResultAndReset ==
  /\ pc = "returned"
  /\ workflow_file' = system_metrics
  /\ system_metrics' = [system_metrics EXCEPT !.total_processing_time = 0]
  /\ pc' = "saved_results"
  /\ UNCHANGED <<config, task_timeout, agent_order, agent_type, status,
                 task_history, ntasks, tasks, fut, done_order,
                 snap_finished, collected, results, error_log, next_uuid,
                 metrics_file, results_returned>>
  /\ UNCHANGED trainVars

\* json.dump(workflow_result, f): the file holds self.system_metrics as it is
\* at this moment
SaveWorkflowResult ==
  /\ pc = "returned"
  /\ workflow_file' = system_metrics
  /\ pc' = "saved_results"
  /\ UNCHANGED <<config, task_timeout, agent_order, agent_type, status,
                 task_history, system_metrics, ntasks, tasks, fut, done_order,
                 snap_finished, collected, results, error_log, next_uuid,
                 metrics_file, results_returned>>
  /\ UNCHANGED trainVars

\* json.dump(self.system_metrics, f); the summary is printed and
\* run_demo_workflow returns
SaveMetrics ==
  /\ pc = "saved_results"
  /\ metrics_file' = system_metrics
  /\ pc' = "returned"
  /\ UNCHANGED <<config, task_timeout, agent_order, agent_type, status,
                 task_history, system_metrics, ntasks, tasks, fut, done_order,
                 snap_finished, collected, results, error_log, next_uuid,
                 workflow_file, results_returned>>
  /\ UNCHANGED trainVars

\* ============================================================================
\*  distributed_training.py
\* ============================================================================
MaxTrainWorkers == 2
MaxEpochs == 2
StopWorkers == 6
StopEpochs == 7

DatasetSize == 10000
NoResult == [loss |-> 0, accuracy |-> 0]

\* random.uniform(-0.05, 0.05) and random.uniform(-0.02, 0.02), in hundredths
NoisePairs == {<<-5, -2>>, <<5, 2>>}

Workers == 1..d_num_workers

\* loss = max(0.1, 2.0 - epoch_num * 0.1 + noise), in hundredths
TrainingLoss(e, noise) ==
  LET v == 200 - e * 10 + noise IN IF v < 10 THEN 10 ELSE v

\* accuracy = min(0.95, 0.5 + epoch_num * 0.08 + noise), in hundredths
ValidationAccuracy(e, noise) ==
  LET v == 50 + e * 8 + noise IN IF v > 95 THEN 95 ELSE v

\* len(self.data_partitions[worker_id]): total_samples // num_workers
PartitionSize == DatasetSize \div d_num_workers

RECURSIVE SumField(_, _, _)
SumField(rs, field, k) ==
  IF k = 0 THEN 0 ELSE SumField(rs, field, k - 1) + rs[k][field]

\* ---- IEEE-754 double arithmetic on the capped accuracy --------------------
\* The double nearest 0.95 is 0x1E666666666666 * 2^-53.  Summing k copies of
\* it left to right, the partial sum is k times that value plus an error of
\* a few units of 2^-53; the error is followed exactly through the low bits.
CapMantissaLow == 6      \* 0x1E666666666666 mod 32
UlpAt(k) ==              \* spacing of doubles around 0.95 * k, in units 2^-53
  IF 95 * k < 100 THEN 1
  ELSE IF 95 * k < 200 THEN 2
  ELSE IF 95 * k < 400 THEN 4
  ELSE IF 95 * k < 800 THEN 8
  ELSE 16

RECURSIVE NaiveSumError(_)
NaiveSumError(k) ==
  IF k = 0 THEN 0
  ELSE LET d == NaiveSumError(k - 1)
           t == k * CapMantissaLow + d
           u == UlpAt(k)
           r == t % u
       IN IF 2 * r < u THEN d - r
          ELSE IF 2 * r > u THEN d + (u - r)
          ELSE IF (t - r) % (2 * u) = 0 THEN d - r
          ELSE d + (u - r)

\* variant: the mean of n equal values is the value, as in exact arithmetic
MeanOfCapsExact(n, mode) == FALSE

\* sum([0.95] * n) / n > 0.95 in doubles: the quotient rounds above 0.95
\* exactly when the error of the sum exceeds n / 2 units; a compensated sum
\* is exact to the last bit and the quotient is 0.95
MeanOfCapsExceedsCap(n, mode) ==
  IF mode = "naive" THEN 2 * NaiveSumError(n) > n ELSE FALSE

\* global_accuracy > 0.95, for a mean kept as [sum, n] in hundredths
ExceedsThreshold(g, mode) ==
  IF g.sum = 95 * g.n THEN MeanOfCapsExceedsCap(g.n, mode)
  ELSE g.sum > 95 * g.n

InitialWorkerMetrics ==
  [epochs_completed |-> 0, samples_processed |-> 0, training_loss |-> <<>>,
   validation_accuracy |-> <<>>, start_time |-> FALSE, end_time |-> FALSE]

NoFuture == [pc |-> "none", epoch |-> 0, result |-> NoResult]

\* DistributedTrainingCoordinator.__init__ for num_workers = n, epochs = e;
\* _generate_training_data divides by num_workers
Constructed(n, e) ==
  /\ d_num_workers = n
  /\ d_epochs = e
  /\ d_pc = IF n = 0 THEN "construct_failed" ELSE "constructed"
  /\ epoch = 0
  /\ w_status = [w \in 1..n |-> "idle"]
  /\ w_metrics = [w \in 1..n |-> InitialWorkerMetrics]
  /\ d_fut = [w \in 1..n |-> NoFuture]
  /\ d_waiter = <<>>
  /\ d_snap = {}
  /\ d_collected = {}
  /\ epoch_results = <<>>
  /\ global_metrics =
       [start_time |-> FALSE, end_time |-> FALSE, global_loss_history |-> <<>>,
        global_accuracy_history |-> <<>>, synchronization_overhead |-> <<>>]
  /\ d_error_log = <<>>

\* no coordinator of the other kind exists
NoTraining ==
  /\ sum_mode = "naive"
  /\ rng = {}
  /\ Constructed(0, 0)

NoAgents ==
  /\ config = <<>>
  /\ task_timeout = 600
  /\ agent_order = <<>>
  /\ agent_type = <<>>
  /\ status = <<>>
  /\ task_history = <<>>
  /\ system_metrics = [tasks_processed |-> 0, total_processing_time |-> 0,
                       agent_utilization |-> <<>>]
  /\ pc = "idle"
  /\ ntasks = 0
  /\ tasks = <<>>
  /\ fut = <<>>
  /\ done_order = <<>>
  /\ snap_finished = {}
  /\ collected = {}
  /\ results = <<>>
  /\ error_log = <<>>
  /\ next_uuid = 1
  /\ workflow_file = NoFile
  /\ metrics_file = NoFile
  /\ results_returned = 0

D_Submitted == {w \in Workers : d_fut[w].pc # "none"}
D_InFlight == {w \in Workers : d_fut[w].pc \in {"queued", "training"}}
D_Finished == {w \in Workers : d_fut[w].pc \in {"ok", "raised"}}

\* run_training up to the loop: start times, every worker "ready"
RunTraining ==
  /\ d_pc = "constructed"
  /\ d_pc' = "loop"
  /\ global_metrics' = [global_metrics EXCEPT !.start_time = TRUE]
  /\ w_metrics' = [w \in Workers |-> [w_metrics[w] EXCEPT !.start_time = TRUE]]
  /\ w_status' = [w \in Workers |-> "ready"]
  /\ UNCHANGED <<d_num_workers, d_epochs, sum_mode, rng, epoch, d_fut,
                 d_waiter, d_snap, d_collected, epoch_results, d_error_log>>
  /\ UNCHANGED masVars

\* variant: epoch_results is created once, before the loop, and keeps the
\* results of the rounds before
NextEpochKeepsResults ==
  /\ d_pc = "loop"
  /\ IF epoch < d_epochs
     THEN /\ epoch' = epoch + 1
          /\ d_pc' = "submitting"
          /\ d_fut' = [w \in Workers |-> NoFuture]
          /\ d_waiter' = <<>>
          /\ d_snap' = {}
          /\ d_collected' = {}
          /\ epoch_results' = epoch_results
     ELSE /\ d_pc' = "finishing"
          /\ UNCHANGED <<epoch, d_fut, d_waiter, d_snap, d_collected,
                         epoch_results>>
  /\ UNCHANGED <<d_num_workers, d_epochs, sum_mode, rng, w_status, w_metrics,
                 global_metrics, d_error_log>>
  /\ UNCHANGED masVars

\* for epoch in range(1, self.epochs + 1): next epoch, entering
\* train_epoch_parallel with a new pool, or the loop is exhausted
NextEpoch ==
  /\ d_pc = "loop"
  /\ IF epoch < d_epochs
     THEN /\ epoch' = epoch + 1
          /\ d_pc' = "submitting"
          /\ d_fut' = [w \in Workers |-> NoFuture]
          /\ d_waiter' = <<>>
          /\ d_snap' = {}
          /\ d_collected' = {}
          /\ epoch_results' = <<>>
     ELSE /\ d_pc' = "finishing"
          /\ UNCHANGED <<epoch, d_fut, d_waiter, d_snap, d_collected,
                         epoch_results>>
  /\ UNCHANGED <<d_num_workers, d_epochs, sum_mode, rng, w_status, w_metrics,
                 global_metrics, d_error_log>>
  /\ UNCHANGED masVars

\* executor.submit(worker.train_epoch, epoch_num, data_partition), workers
\* in list order
SubmitWorker(w) ==
  /\ d_pc = "submitting"
  /\ w \in Workers
  /\ w = Cardinality(D_Submitted) + 1
  /\ d_fut' = [d_fut EXCEPT ![w] = [pc |-> "queued", epoch |-> epoch,
                                    result |-> NoResult]]
  /\ UNCHANGED <<d_num_workers, d_epochs, sum_mode, rng, d_pc, epoch, w_status,
                 w_metrics, d_waiter, d_snap, d_collected, epoch_results,
                 global_metrics, d_error_log>>
  /\ UNCHANGED masVars

\* a pool thread enters train_epoch: self.status = "training"
StartTraining(w) ==
  /\ w \in Workers
  /\ d_fut[w].pc = "queued"
  /\ d_fut' = [d_fut EXCEPT ![w].pc = "training"]
  /\ w_status' = [w_status EXCEPT ![w] = "training"]
  /\ UNCHANGED <<d_num_workers, d_epochs, sum_mode, rng, d_pc, epoch,
                 w_metrics, d_waiter, d_snap, d_collected, epoch_results,
                 global_metrics, d_error_log>>
  /\ UNCHANGED masVars

\* the rest of train_epoch: metrics drawn and recorded, result returned
TrainEpoch(w, noise) ==
  /\ w \in Workers
  /\ d_fut[w].pc = "training"
  /\ noise \in rng
  /\ LET e == d_fut[w].epoch
         res == [loss |-> TrainingLoss(e, noise[1]),
                 accuracy |-> ValidationAccuracy(e, noise[2])]
     IN /\ w_metrics' = [w_metrics EXCEPT
              ![w].epochs_completed = @ + 1,
              ![w].samples_processed = @ + PartitionSize,
              ![w].training_loss = Append(@, res.loss),
              ![w].validation_accuracy = Append(@, res.accuracy)]
        /\ d_fut' = [d_fut EXCEPT ![w].pc = "ok", ![w].result = res]
  /\ d_waiter' = IF d_pc = "collecting" THEN Append(d_waiter, w) ELSE d_waiter
  /\ UNCHANGED <<d_num_workers, d_epochs, sum_mode, rng, d_pc, epoch, w_status,
                 d_snap, d_collected, epoch_results, global_metrics, d_error_log>>
  /\ UNCHANGED masVars

\* train_epoch raises before it records anything (the case the handler of
\* the collect loop is written for)
TrainEpochRaises(w) ==
  /\ w \in Workers
  /\ d_fut[w].pc = "training"
  /\ d_fut' = [d_fut EXCEPT ![w].pc = "raised"]
  /\ d_waiter' = IF d_pc = "collecting" THEN Append(d_waiter, w) ELSE d_waiter
  /\ UNCHANGED <<d_num_workers, d_epochs, sum_mode, rng, d_pc, epoch, w_status,
                 w_metrics, d_snap, d_collected, epoch_results, global_metrics,
                 d_error_log>>
  /\ UNCHANGED masVars

\* every worker is submitted; as_completed(futures) starts
AsCompletedEpoch ==
  /\ d_pc = "submitting"
  /\ D_Submitted = Workers
  /\ d_pc' = "collecting"
  /\ d_snap' = D_Finished
  /\ UNCHANGED <<d_num_workers, d_epochs, sum_mode, rng, epoch, w_status,
                 w_metrics, d_fut, d_waiter, d_collected, epoch_results,
                 global_metrics, d_error_log>>
  /\ UNCHANGED masVars

\* as_completed yields the futures finished at its start in any order, then
\* the others in the order they finish
D_NextYield(w) ==
  /\ w \in D_Finished \ d_collected
  /\ \/ w \in d_snap
     \/ /\ d_snap \subseteq d_collected
        /\ d_waiter # <<>>
        /\ w = Head(d_waiter)

\* one iteration of the collect loop of train_epoch_parallel
CollectEpochResult(w) ==
  /\ d_pc = "collecting"
  /\ D_NextYield(w)
  /\ d_collected' = d_collected \cup {w}
  /\ d_waiter' = IF w \in d_snap THEN d_waiter ELSE Tail(d_waiter)
  /\ IF d_fut[w].pc = "ok"
     THEN /\ epoch_results' = Append(epoch_results, d_fut[w].result)
          /\ d_error_log' = d_error_log
     ELSE /\ d_error_log' = Append(d_error_log, [kind |-> "worker", worker |-> w])
          /\ epoch_results' = epoch_results
  /\ UNCHANGED <<d_num_workers, d_epochs, sum_mode, rng, d_pc, epoch, w_status,
                 w_metrics, d_fut, d_snap, global_metrics>>
  /\ UNCHANGED masVars

\* variant: the collect loop is left after the first result
BarrierClearedAfterFirst == d_collected # {}

\* the collect loop has seen every future and the pool is shut down
BarrierCleared == d_collected = Workers

\* variant: train_epoch_parallel returns without calling synchronize_workers
EnterSynchronizeSkipped ==
  /\ d_pc = "collecting"
  /\ BarrierCleared
  /\ d_pc' = "loop"
  /\ UNCHANGED <<d_num_workers, d_epochs, sum_mode, rng, epoch, w_status,
                 w_metrics, d_fut, d_waiter, d_snap, d_collected,
                 epoch_results, global_metrics, d_error_log>>
  /\ UNCHANGED masVars

\* the with block is left and synchronize_workers is entered
EnterSynchronize ==
  /\ d_pc = "collecting"
  /\ BarrierCleared
  /\ d_pc' = "synchronizing"
  /\ UNCHANGED <<d_num_workers, d_epochs, sum_mode, rng, epoch, w_status,
                 w_metrics, d_fut, d_waiter, d_snap, d_collected,
                 epoch_results, global_metrics, d_error_log>>
  /\ UNCHANGED masVars

\* variant: the overhead of the round is recorded before the means are taken
SynchronizeWorkersOverheadFirst ==
  /\ d_pc = "synchronizing"
  /\ IF Len(epoch_results) = 0
     THEN /\ d_pc' = "raising"
          /\ d_error_log' = Append(d_error_log, [kind |-> "training", worker |-> 0])
          /\ global_metrics' = [global_metrics EXCEPT
               !.synchronization_overhead = Append(@, 5 + d_num_workers)]
     ELSE /\ d_pc' = "stop_check"
          /\ d_error_log' = d_error_log
          /\ global_metrics' = [global_metrics EXCEPT
               !.synchronization_overhead = Append(@, 5 + d_num_workers),
               !.global_loss_history =
                  Append(@, [sum |-> SumField(epoch_results, "loss", Len(epoch_results)),
                             n |-> Len(epoch_results)]),
               !.global_accuracy_history =
                  Append(@, [sum |-> SumField(epoch_results, "accuracy", Len(epoch_results)),
                             n |-> Len(epoch_results)])]
  /\ UNCHANGED <<d_num_workers, d_epochs, sum_mode, rng, epoch, w_status,
                 w_metrics, d_fut, d_waiter, d_snap, d_collected,
                 epoch_results>>
  /\ UNCHANGED masVars

\* synchronize_workers: the two means (ZeroDivisionError on an empty list),
\* then the three appends; the error is logged by run_training's handler
SynchronizeWorkers ==
  /\ d_pc = "synchronizing"
  /\ IF Len(epoch_results) = 0
     THEN /\ d_pc' = "raising"
          /\ d_error_log' = Append(d_error_log, [kind |-> "training", worker |-> 0])
          /\ global_metrics' = global_metrics
     ELSE /\ d_pc' = "stop_check"
          /\ d_error_log' = d_error_log
          /\ global_metrics' = [global_metrics EXCEPT
               !.synchronization_overhead = Append(@, 5 + d_num_workers),
               !.global_loss_history =
                  Append(@, [sum |-> SumField(epoch_results, "loss", Len(epoch_results)),
                             n |-> Len(epoch_results)]),
               !.global_accuracy_history =
                  Append(@, [sum |-> SumField(epoch_results, "accuracy", Len(epoch_results)),
                             n |-> Len(epoch_results)])]
  /\ UNCHANGED <<d_num_workers, d_epochs, sum_mode, rng, epoch, w_status,
                 w_metrics, d_fut, d_waiter, d_snap, d_collected,
                 epoch_results>>
  /\ UNCHANGED masVars

LastAccuracy ==
  global_metrics.global_accuracy_history[Len(global_metrics.global_accuracy_history)]

\* variant: the early-stopping test does not leave the loop
EarlyStoppingCheckIgnored ==
  /\ d_pc = "stop_check"
  /\ d_pc' = "loop"
  /\ UNCHANGED <<d_num_workers, d_epochs, sum_mode, rng, epoch, w_status,
                 w_metrics, d_fut, d_waiter, d_snap, d_collected,
                 epoch_results, global_metrics, d_error_log>>
  /\ UNCHANGED masVars

\* if global_accuracy > 0.95: break
EarlyStoppingCheck ==
  /\ d_pc = "stop_check"
  /\ d_pc' = IF ExceedsThreshold(LastAccuracy, sum_mode) THEN "finishing" ELSE "loop"
  /\ UNCHANGED <<d_num_workers, d_epochs, sum_mode, rng, epoch, w_status,
                 w_metrics, d_fut, d_waiter, d_snap, d_collected,
                 epoch_results, global_metrics, d_error_log>>
  /\ UNCHANGED masVars

\* variant: the closing statements follow the try block instead of being its
\* finally clause, so a re-raised error passes them by
FinalizeOnSuccessOnly ==
  /\ d_pc \in {"finishing", "raising"}
  /\ d_pc' = IF d_pc = "finishing" THEN "done" ELSE "failed"
  /\ IF d_pc = "finishing"
     THEN /\ global_metrics' = [global_metrics EXCEPT !.end_time = TRUE]
          /\ w_metrics' = [w \in Workers |-> [w_metrics[w] EXCEPT !.end_time = TRUE]]
          /\ w_status' = [w \in Workers |-> "completed"]
     ELSE UNCHANGED <<global_metrics, w_metrics, w_status>>
  /\ UNCHANGED <<d_num_workers, d_epochs, sum_mode, rng, epoch, d_fut,
                 d_waiter, d_snap, d_collected, epoch_results, d_error_log>>
  /\ UNCHANGED masVars

\* the finally block, then either _save_results or the re-raised error
Finalize ==
  /\ d_pc \in {"finishing", "raising"}
  /\ d_pc' = IF d_pc = "finishing" THEN "done" ELSE "failed"
  /\ global_metrics' = [global_metrics EXCEPT !.end_time = TRUE]
  /\ w_metrics' = [w \in Workers |-> [w_metrics[w] EXCEPT !.end_time = TRUE]]
  /\ w_status' = [w \in Workers |-> "completed"]
  /\ UNCHANGED <<d_num_workers, d_epochs, sum_mode, rng, epoch, d_fut,
                 d_waiter, d_snap, d_collected, epoch_results, d_error_log>>
  /\ UNCHANGED masVars

\* the training coordinator with train_epoch as written (it has no statement
\* that raises)
NextTrain ==
  \/ RunTraining
  \/ NextEpoch
  \/ \E w \in Workers : SubmitWorker(w)
  \/ \E w \in Workers : StartTraining(w)
  \/ \E w \in Workers : \E noise \in rng : TrainEpoch(w, noise)
  \/ AsCompletedEpoch
  \/ \E w \in Workers : CollectEpochResult(w)
  \/ EnterSynchronize
  \/ SynchronizeWorkers
  \/ EarlyStoppingCheck
  \/ Finalize

\* the same with work units that may raise
NextTrainFaulty ==
  \/ NextTrain
  \/ \E w \in Workers : TrainEpochRaises(w)

InitTrain ==
  /\ NoAgents
  /\ sum_mode = "naive"
  /\ rng = NoisePairs
  /\ \E n \in 0..MaxTrainWorkers, e \in 0..MaxEpochs : Constructed(n, e)

\* run_training called again on a coordinator whose previous call has ended:
\* nothing in the method tests for it; the loop variable starts over and the
\* histories are appended to.  Calls are taken while the epochs synchronized
\* so far and those of the new call fit in MaxEpochs.
RunTrainingAgain ==
  /\ d_pc \in {"done", "failed"}
  /\ Len(global_metrics.global_loss_history) + d_epochs <= MaxEpochs
  /\ d_pc' = "loop"
  /\ epoch' = 0
  /\ global_metrics' = [global_metrics EXCEPT !.start_time = TRUE]
  /\ w_metrics' = [w \in Workers |-> [w_metrics[w] EXCEPT !.start_time = TRUE]]
  /\ w_status' = [w \in Workers |-> "ready"]
  /\ UNCHANGED <<d_num_workers, d_epochs, sum_mode, rng, d_fut,
                 d_waiter, d_snap, d_collected, epoch_results, d_error_log>>
  /\ UNCHANGED masVars

\* a coordinator object that is used for several calls of run_training
NextTrainRepeat ==
  \/ NextTrain
  \/ RunTrainingAgain

\* coordinators that run at least one epoch on at least one worker
InitTrainRepeat ==
  /\ NoAgents
  /\ sum_mode = "naive"
  /\ rng = NoisePairs
  /\ \E n \in 1..MaxTrainWorkers, e \in 1..MaxEpochs : Constructed(n, e)

\* a pool and an epoch count large enough for the capped accuracy to be
\* reached by every worker
InitTrainLong ==
  /\ NoAgents
  /\ sum_mode = "naive"
  /\ rng = {<<0, 0>>}
  /\ Constructed(StopWorkers, StopEpochs)

SpecTrain == InitTrain /\ [][NextTrainFaulty]_vars
SpecTrainLong == InitTrainLong /\ [][NextTrain]_vars
SpecTrainRepeat == InitTrainRepeat /\ [][NextTrainRepeat]_vars

NextAgents ==
  \/ \E n \in 0..MaxTasks : ProcessTasksParallel(n)
  \/ \E t \in TaskInputs : SubmitTask(t)
  \/ \E i \in 1..MaxTasks : StartTask(i)
  \/ \E i \in 1..MaxTasks : AppendRecord(i)
  \/ \E i \in 1..MaxTasks : SetIdle(i)
  \/ \E i \in 1..MaxTasks : ReturnRecord(i)
  \/ \E i \in 1..MaxTasks : SetError(i)
  \/ \E i \in 1..MaxTasks : Reraise(i)
  \/ AsCompleted
  \/ \E i \in 1..MaxTasks : Collect(i)
  \/ UpdateAgentMetrics
  \/ ReturnResults

InitAgentsOnly == InitAgents /\ NoTraining

SpecAgents == InitAgentsOnly /\ [][NextAgents]_vars

\* the steps of the pool's threads
PoolStep ==
  \E i \in 1..MaxTasks :
     \/ StartTask(i)
     \/ AppendRecord(i)
     \/ SetIdle(i)
     \/ ReturnRecord(i)
     \/ SetError(i)
     \/ Reraise(i)

\* systems made of the last agents of the demo's list: pools of one and two
\* threads
PoolConfigs ==
  {SubSeq(DemoAgents, k, Len(DemoAgents)) :
      k \in (Len(DemoAgents) - 1)..Len(DemoAgents)}

InitPool ==
  /\ NoTraining
  /\ \E c \in PoolConfigs : Registered(c, 600)

\* the pool's threads are scheduled: a thread that can take a step does
SpecPool == InitPool /\ [][NextAgents]_vars /\ WF_vars(PoolStep)

\* process_tasks_parallel called from run_demo_workflow, which then writes
\* the two output files (the /volumes directories exist)
NextWorkflow ==
  \/ NextAgents
  \/ SaveWorkflowResult
  \/ SaveMetrics

SpecWorkflow == InitPool /\ [][NextWorkflow]_vars

\* ============================================================================
\*  Properties of the multi-agent system
\* ============================================================================
RoutingErrors == {k \in 1..Len(error_log) : error_log[k].kind = "routing"}
ExecutionErrors == {k \in 1..Len(error_log) : error_log[k].kind = "execution"}
Position(a) == CHOOSE k \in 1..Len(agent_order) : agent_order[k] = a

\* the type an agent must have for a task tag, as the routing rule states it
TagMatchesType(tag, a_type) ==
  \/ tag \in {"generic", "absent"}
  \/ <<tag, a_type>> \in {<<"research", "researcher">>,
                          <<"analysis", "analyst">>,
                          <<"writing", "writer">>}

\* C1: once process_tasks_parallel has returned, the results returned plus the
\* routing failures reported number as many as the tasks submitted.
C1_EveryTaskAccounted ==
  pc = "returned" => Len(results) + Cardinality(RoutingErrors) = ntasks

\* C2: once the batch has returned, every dispatched task has its own result:
\* `failed` for a task whose work unit raised, `completed` for the others.
C2_FailedTaskHasFailedResult ==
  pc = "returned" =>
    \A i \in Dispatched :
      \E k \in 1..Len(results) :
        /\ results[k].task_id = fut[i].task_id
        /\ results[k].status = IF fut[i].pc = "raised" THEN "failed" ELSE "completed"

\* C4: every dispatched task sits on an agent of the registry whose type
\* matches the task's tag, unless the tag is generic or absent.
C4_RoutedAgentMatchesTag ==
  \A i \in Dispatched :
    /\ fut[i].agent \in Range(agent_order)
    /\ TagMatchesType(tasks[i].type, agent_type[fut[i].agent])

C4_Witness ==
  \E i \in Indices :
    /\ fut[i].pc = "running"
    /\ tasks[i].type = "writing"
    /\ \E b \in Range(agent_order) : agent_type[b] # "writer"

\* C5: the agent a task is assigned to is, among the suitable agents at that
\* moment, one with the shortest task history, and the first registered of
\* those.
C5_LeastLoadedFirstRegistered ==
  [][\A i \in 1..Len(fut') :
       (i > Len(fut) /\ fut'[i].pc = "queued") =>
          LET a == fut'[i].agent
              eligible == Range(FindSuitableAgents(tasks'[i]))
          IN /\ a \in eligible
             /\ \A b \in eligible :
                  \/ Len(task_history[a]) < Len(task_history[b])
                  \/ /\ Len(task_history[a]) = Len(task_history[b])
                     /\ Position(a) <= Position(b)]_vars

C5_Witness ==
  /\ Len(agent_order) = 2
  /\ agent_type[agent_order[1]] = "researcher"
  /\ agent_type[agent_order[2]] = "researcher"
  /\ Len(task_history[agent_order[1]]) = 1
  /\ \E i \in Indices :
       /\ fut[i].pc = "queued"
       /\ fut[i].agent = agent_order[2]
       /\ tasks[i].type = "research"

C9_OneTaskPerAgentInFlight ==
  \A i, j \in Occupied : i # j => fut[i].agent # fut[j].agent

\* ============================================================================
\*  Properties of the training coordinator
\* ============================================================================
RoundsSynchronized == Len(global_metrics.global_loss_history)
AccuracyHistory == global_metrics.global_accuracy_history

\* C3: while synchronize_workers runs, and once it has run for the current
\* epoch, every worker's task of that epoch has been dispatched and has
\* finished, with a result or with an error.
C3_SynchronizeAfterBarrier ==
  (d_pc = "synchronizing" \/ (epoch > 0 /\ RoundsSynchronized >= epoch)) =>
     \A w \in Workers : d_fut[w].epoch = epoch /\ d_fut[w].pc \in {"ok", "raised"}

C3_Witness ==
  /\ d_pc = "synchronizing"
  /\ \E w, v \in Workers : d_fut[w].pc = "ok" /\ d_fut[v].pc = "raised"

\* C7: an epoch in which work units raise is still synchronized and the run
\* goes on or ends in `done`: no error leaves run_training.
C7_WorkerFailuresNeverAbortRun ==
  d_pc \notin {"raising", "failed"}

\* C8: a finished run has synchronized as many epochs as the index of the first
\* epoch whose global accuracy exceeded 0.95, or all configured epochs if none
\* did; no epoch is started after an epoch that exceeded it, and the run that
\* stops early ends in `done`.
C8_EarlyStopAtFirstExceedingEpoch ==
  /\ [](d_pc = "done" =>
          /\ epoch = RoundsSynchronized
          /\ Len(AccuracyHistory) = RoundsSynchronized
          /\ \A k \in 1..(RoundsSynchronized - 1) :
                ~ExceedsThreshold(AccuracyHistory[k], sum_mode)
          /\ \/ RoundsSynchronized = d_epochs
             \/ /\ RoundsSynchronized > 0
                /\ ExceedsThreshold(AccuracyHistory[RoundsSynchronized], sum_mode))
  /\ [][epoch' # epoch =>
          \A k \in 1..Len(AccuracyHistory) :
             ~ExceedsThreshold(AccuracyHistory[k], sum_mode)]_vars
  /\ []((\E k \in 1..Len(AccuracyHistory) :
            ExceedsThreshold(AccuracyHistory[k], sum_mode))
          => d_pc \in {"stop_check", "finishing", "done"})

C8_Witness ==
  /\ d_pc = "done"
  /\ RoundsSynchronized < d_epochs
  /\ RoundsSynchronized = 6
  /\ ExceedsThreshold(AccuracyHistory[6], sum_mode)

\* C10: a worker's task is submitted only when every earlier epoch has been
\* synchronized and no task of an earlier epoch is queued or training, and the
\* epoch number advances only when no task is queued or training.
C10_EpochsDoNotOverlap ==
  [][/\ \A w \in Workers :
          (d_fut[w].pc = "none" /\ d_fut'[w].pc = "queued") =>
             /\ RoundsSynchronized = epoch - 1
             /\ d_fut'[w].epoch = epoch
             /\ \A v \in D_InFlight : d_fut[v].epoch = epoch
     /\ epoch' # epoch => (D_InFlight = {} /\ RoundsSynchronized = epoch)]_vars

C10_Witness ==
  /\ epoch = 2
  /\ RoundsSynchronized = 1
  /\ \E w, v \in Workers : d_fut[w].pc = "training" /\ d_fut[v].pc = "queued"

TypeOKAgents ==
  pc \in {"idle", "submitting", "collecting", "updating", "returned", "crashed"}

\* ---------------------------------------------------------------- C11
\* C11: a task whose work unit ran longer than the configured task_timeout has
\* no `completed` record among the results of the batch (its result is a
\* `failed` one with a timeout error).
C11_SlowTaskIsFailedByTimeout ==
  \A k \in 1..Len(results) :
     results[k].duration > task_timeout => results[k].status = "failed"

\* ---------------------------------------------------------------- C12
\* C12: every step in which the collect loop takes the outcome of a dispatched
\* task, a record or a failure, adds one to tasks_processed; it adds the
\* record's duration to total_processing_time when the task completed and
\* nothing when it failed; a step that takes no outcome (routing failures
\* included) leaves both totals as they are.
C12_TotalsCountEveryOutcome ==
  [][ /\ \A i \in collected' \ collected :
           /\ system_metrics'.tasks_processed = system_metrics.tasks_processed + 1
           /\ system_metrics'.total_processing_time =
                 system_metrics.total_processing_time +
                   (IF fut[i].pc = "done" THEN fut[i].record.duration ELSE 0)
      /\ collected' \subseteq collected =>
           /\ system_metrics'.tasks_processed = system_metrics.tasks_processed
           /\ system_metrics'.total_processing_time =
                 system_metrics.total_processing_time ]_vars

\* ---------------------------------------------------------------- C13
\* C13: no counter of system_metrics ever decreases, over any number of
\* calls of process_tasks_parallel, and system_metrics changes only in a step
\* of the collect loop that handles a record it has taken from a finished
\* future: never in the submit loop, in a pool thread or for a task that was
\* not routed.
C13_MetricsMonotoneAndResultDriven ==
  [][ /\ system_metrics'.tasks_processed >= system_metrics.tasks_processed
      /\ system_metrics'.total_processing_time >=
            system_metrics.total_processing_time
      /\ \A a \in Range(agent_order) :
            /\ system_metrics'.agent_utilization[a].tasks_completed >=
                  system_metrics.agent_utilization[a].tasks_completed
            /\ system_metrics'.agent_utilization[a].total_time >=
                  system_metrics.agent_utilization[a].total_time
      /\ system_metrics' # system_metrics =>
            /\ pc \in {"collecting", "updating"}
            /\ Len(results') >= 1
            /\ \E i \in collected' :
                  /\ fut[i].pc = "done"
                  /\ fut[i].record = results'[Len(results')] ]_vars

C13_Witness ==
  /\ pc = "returned"
  /\ system_metrics.tasks_processed = 2
  /\ system_metrics.total_processing_time = 7
  /\ Len(results) = 1

\* ---------------------------------------------------------------- C14
\* the coordinator state of the training coordinator, read off the position
\* of run_training
Phase ==
  CASE d_pc \in {"constructed", "construct_failed"} -> "idle"
    [] d_pc = "loop" -> IF epoch = 0 THEN "idle" ELSE "synchronizing"
    [] d_pc \in {"submitting", "collecting"} -> "dispatching"
    [] d_pc \in {"synchronizing", "stop_check", "raising"} -> "synchronizing"
    [] OTHER -> "done"

\* C14: the coordinator state changes only along idle -> dispatching,
\* dispatching -> synchronizing, synchronizing -> dispatching and
\* synchronizing -> done; in particular it never leaves done.
C14_CoordinatorStateMachine ==
  [][Phase' # Phase =>
       <<Phase, Phase'>> \in {<<"idle", "dispatching">>,
                              <<"dispatching", "synchronizing">>,
                              <<"synchronizing", "dispatching">>,
                              <<"synchronizing", "done">>}]_vars

\* ---------------------------------------------------------------- C15
\* C15: an agent's status changes only from idle to working, from working to
\* idle and from working to error.
C15_StatusTransitions ==
  [][\A a \in Range(agent_order) :
        status'[a] # status[a] =>
           <<status[a], status'[a]>> \in {<<"idle", "working">>,
                                          <<"working", "idle">>,
                                          <<"working", "error">>}]_vars

\* ---------------------------------------------------------------- C16
RECURSIVE SumUtilization(_, _, _)
SumUtilization(m, field, k) ==
  IF k = 0 THEN 0
  ELSE SumUtilization(m, field, k - 1) + m.agent_utilization[agent_order[k]][field]

\* C16: what a reader of system_metrics sees at any moment holds each recorded
\* result either in both the run totals and its agent's record or in neither:
\* the totals equal the sums of the agents' records.
C16_SnapshotShowsWholeResults ==
  /\ system_metrics.tasks_processed =
        SumUtilization(system_metrics, "tasks_completed", Len(agent_order))
  /\ system_metrics.total_processing_time =
        SumUtilization(system_metrics, "total_time", Len(agent_order))

\* ---------------------------------------------------------------- C17
\* the first entry of config['agents'] that carries the id
FirstEntry(id) ==
  config[CHOOSE k \in 1..Len(config) :
            /\ config[k].id = id
            /\ \A j \in 1..(k - 1) : config[j].id # id]

\* C17: the registry holds one agent per identifier of the configuration and
\* it is the first one configured under that identifier: a later entry with
\* the same identifier has not replaced it.
C17_DuplicateIdKeepsFirstWorker ==
  /\ Range(agent_order) = {config[k].id : k \in 1..Len(config)}
  /\ \A a \in Range(agent_order) : agent_type[a] = FirstEntry(a).type

\* ---------------------------------------------------------------- C18
\* C18: a configuration with zero agents is rejected when the system is
\* constructed, so a system with zero agents never takes a batch: no call of
\* process_tasks_parallel is accepted by it, or fails on it.
C18_ZeroAgentsRejectedAtConstruction ==
  MaxWorkers = 0 => pc = "idle" /\ ntasks = 0 /\ next_uuid = 1

\* ---------------------------------------------------------------- C19
\* C19: at no time are more work units inside process_task than the pool has
\* threads (one per registered agent), and every task that was submitted to
\* the pool is eventually started.
C19_PoolBoundsConcurrency ==
  /\ [](Cardinality(Occupied) <= MaxWorkers)
  /\ \A i \in 1..MaxTasks :
        (i \in Indices /\ fut[i].pc = "queued")
           ~> (i \in Indices /\ fut[i].pc # "queued")

C19_Witness ==
  /\ Cardinality(Occupied) = MaxWorkers
  /\ \E i \in Indices : fut[i].pc = "queued"

\* ---------------------------------------------------------------- C20
\* position of task i in the order of completion, and of its record in results
DonePosition(i) == CHOOSE k \in 1..Len(done_order) : done_order[k] = i
ResultIndex(k) == CHOOSE i \in Indices : fut[i].task_id = results[k].task_id

\* C20: the records in `results` stand in the order in which their tasks
\* finished.
C20_ResultsInCompletionOrder ==
  \A k, m \in 1..Len(results) :
     k < m => DonePosition(ResultIndex(k)) < DonePosition(ResultIndex(m))

\* ---------------------------------------------------------------- C21
\* C21: an agent in status `error` is still a candidate of routing: a task is
\* left without an agent only when no registered agent has a type that
\* matches the task's tag.
C21_ErroredAgentStaysEligible ==
  \A i \in Indices :
     fut[i].pc = "unroutable" =>
        ~\E a \in Range(agent_order) : Matches(TaskType(tasks[i]), agent_type[a])

\* ---------------------------------------------------------------- C22
\* C22: a task that was submitted with an identifier carries that identifier
\* after assign_task, and the identifiers of the tasks submitted to one
\* system are pairwise distinct.
C22_TaskKeepsGivenIdentifier ==
  /\ \A i \in Indices : tasks[i].task_id # 0 => fut[i].task_id = tasks[i].task_id
  /\ \A i, j \in Indices : i # j => fut[i].task_id # fut[j].task_id

\* ---------------------------------------------------------------- C23
\* C23: writing out the metrics changes no counter, and the two copies of the
\* metrics that run_demo_workflow writes one after the other, with no batch
\* between them, are equal.
C23_ReadingMetricsChangesNothing ==
  [][/\ (workflow_file' # workflow_file \/ metrics_file' # metrics_file)
           => system_metrics' = system_metrics
     /\ (pc = "saved_results" /\ pc' # pc) => metrics_file' = workflow_file]_vars

C23_Witness ==
  /\ pc = "returned"
  /\ metrics_file # NoFile
  /\ metrics_file = workflow_file
  /\ metrics_file.tasks_processed = 2

\* ---------------------------------------------------------------- C24
\* the workers whose train_epoch of the current round returned a result
Succeeded == {w \in Workers : d_fut[w].pc = "ok" /\ d_fut[w].epoch = epoch}

RECURSIVE SumSucceeded(_, _)
SumSucceeded(field, k) ==
  IF k = 0 THEN 0
  ELSE SumSucceeded(field, k - 1) +
         (IF k \in Succeeded THEN d_fut[k].result[field] ELSE 0)

C25_AverageIsTotalOverCompleted ==
  \A a \in Range(agent_order) :
     LET u == system_metrics.agent_utilization[a]
     IN /\ u.average_time.den > 0
        /\ IF u.tasks_completed > 0
           THEN u.average_time = [num |-> u.total_time, den |-> u.tasks_completed]
           ELSE u.average_time.num = 0

C25_Witness ==
  \E a \in Range(agent_order) :
     /\ system_metrics.agent_utilization[a].tasks_completed = 2
     /\ system_metrics.agent_utilization[a].average_time.den = 2
     /\ system_metrics.agent_utilization[a].average_time.num > 0

\* ---------------------------------------------------------------- C26
\* a task dispatched to agent a is inside process_task, before the statement
\* that sets the status back
Executing(a) ==
  \E i \in Indices : fut[i].agent = a /\ fut[i].pc \in {"running", "appended"}

\* C26: an agent's status is `working` exactly while a task dispatched to it
\* is executing.
C26_StatusAgreesWithActivity ==
  \A a \in Range(agent_order) : (status[a] = "working") <=> Executing(a)

\* ---------------------------------------------------------------- C27
\* C27: whenever process_tasks_parallel has returned, tasks_processed is the
\* sum of the agents' tasks_completed, each agent's tasks_completed is the
\* length of its task_history, and tasks_processed is the number of results
\* returned by all calls so far.
C27_BookkeepingAgreesOnReturn ==
  pc = "returned" =>
    /\ system_metrics.tasks_processed =
         SumUtilization(system_metrics, "tasks_completed", Len(agent_order))
    /\ \A a \in Range(agent_order) :
         system_metrics.agent_utilization[a].tasks_completed =
           Len(task_history[a])
    /\ system_metrics.tasks_processed = results_returned

\* a second call has returned a result after a first one did
C27_Witness ==
  /\ pc = "returned"
  /\ Len(results) = 1
  /\ results_returned = 2
  /\ system_metrics.tasks_processed = 2

\* ---------------------------------------------------------------- C28
HistoryLengths ==
  {Len(global_metrics.global_loss_history),
   Len(global_metrics.global_accuracy_history),
   Len(global_metrics.synchronization_overhead)}

\* the three histories have one length, at most the configured epochs and at
\* most the rounds started, and no worker has completed more epochs than
\* rounds were started
C28_HistoriesBounded ==
  /\ HistoryLengths = {RoundsSynchronized}
  /\ RoundsSynchronized <= d_epochs
  /\ RoundsSynchronized <= epoch
  /\ \A w \in Workers : w_metrics[w].epochs_completed <= epoch

\* the common length grows by one exactly in the step that completes a
\* synchronization, and in no other step
C28_GrowsWithSynchronization ==
  IF d_pc = "synchronizing" /\ d_pc' = "stop_check"
  THEN Len(global_metrics'.global_loss_history) = RoundsSynchronized + 1
  ELSE Len(global_metrics'.global_loss_history) = RoundsSynchronized

AllCapped ==
  /\ RoundsSynchronized > 0
  /\ LastAccuracy.n = d_num_workers
  /\ LastAccuracy.sum = 95 * d_num_workers

\* C29: the early-stopping exit is taken: with every worker at the capped
\* accuracy the mean computed in doubles is greater than 0.95, and the run
\* ends in `done` with fewer synchronized rounds than configured epochs.
C29_EarlyStopIsTaken ==
  d_pc = "done" =>
    /\ AllCapped
    /\ ExceedsThreshold(LastAccuracy, sum_mode)
    /\ RoundsSynchronized < d_epochs
    /\ epoch < d_epochs

\* the run has ended early on a mean of capped accuracies, each of them
\* recorded by its worker
C29_Witness ==
  /\ d_pc = "done"
  /\ epoch < d_epochs
  /\ AllCapped
  /\ MeanOfCapsExceedsCap(d_num_workers, sum_mode)
  /\ \A w \in Workers :
       /\ Len(w_metrics[w].validation_accuracy) = epoch
       /\ w_metrics[w].validation_accuracy[epoch] = 95

\* ---------------------------------------------------------------- C30
\* C30: once run_training has ended, with its result or with an error, the
\* finally block has run: every worker is `completed`, none is `training` or
\* `ready`, and the end_time of the run and of every worker is set.
C30_FinalizationAlwaysRuns ==
  d_pc \in {"done", "failed"} =>
    /\ global_metrics.end_time
    /\ \A w \in Workers :
         /\ w_status[w] = "completed"
         /\ w_status[w] \notin {"training", "ready"}
         /\ w_metrics[w].end_time

\* a run that ended with the error of a round in which every worker failed,
\* after the workers had been set to `training`
C30_Witness ==
  /\ d_pc = "failed"
  /\ d_num_workers = 2
  /\ \A w \in Workers : d_fut[w].pc = "raised" /\ w_status[w] = "completed"
  /\ global_metrics.end_time

====
